---- MODULE Spec2Model ----
(***************************************************************************)
(* A model of the Velox site scripts (src/js/forms.js): field and form     *)
(* validation, the simulated quote/contact submission, the toast, the      *)
(* quote modal and the theme toggle.                                       *)
(*                                                                         *)
(* Strings the code inspects character by character (field values, field  *)
(* names) are sequences of one-character strings.                          *)
(***************************************************************************)
EXTENDS Integers, Sequences, FiniteSets, TLC

(***************************************************************************)
(* Bounds of the model.                                                    *)
(***************************************************************************)
\* longest field value enumerated over the whole alphabet
MaxShort == 5
\* longest run of one repeated character in the long field values
MaxRun == 11
\* most toggles of the theme followed between two loads or system changes
MaxToggles == 5
\* number of fields of the form
NFields == 2
\* most submissions that pass validation in one behaviour
MaxSubmits == 2
\* most pending focus timers of openQuoteModal
MaxFocusTimers == 1
\* the largest number of entries in a fetched JSON array
MaxItems == 4
\* the largest number of page loads in a behaviour
MaxLoads == 2
\* where the count of the input events of a burst stops
MaxBurst == 2
\* the largest number of pending removal timers of the autosave
MaxRemoveTimers == 1
\* the largest scroll position of the page
MaxScroll == 12

(***************************************************************************)
(* Program constants.                                                      *)
(***************************************************************************)
TextareaMinLength == 10
\* scrollThreshold of initStickyHeader
ScrollThreshold == 10
InputMinLength == 2
PhoneMinLength == 10

MsgRequired == "This field is required."
MsgEmail == "Please enter a valid email address."
MsgPhone == "Please enter a valid phone number."
MsgTextarea == "Please provide more details (minimum 10 characters)."
MsgInput == "This field must be at least 2 characters long."

(***************************************************************************)
(* Characters and the string helpers of the JavaScript runtime that        *)
(* validateField uses.                                                     *)
(***************************************************************************)
Digits == {"1"}
Whitespace == {" "}

\* String.prototype.trim: drop leading and trailing whitespace
RECURSIVE trimStart(_)
trimStart(s) ==
    IF s # <<>> /\ Head(s) \in Whitespace THEN trimStart(Tail(s)) ELSE s

RECURSIVE trimEnd(_)
trimEnd(s) ==
    IF s # <<>> /\ s[Len(s)] \in Whitespace
    THEN trimEnd(SubSeq(s, 1, Len(s) - 1))
    ELSE s

trim(s) == trimEnd(trimStart(s))

\* String.prototype.toLowerCase on the characters of the model
lowerChar(c) ==
    CASE c = "P" -> "p"
      [] c = "H" -> "h"
      [] OTHER -> c

toLowerCase(s) == [i \in 1..Len(s) |-> lowerChar(s[i])]

\* String.prototype.includes
includes(s, sub) ==
    \E i \in 1..(Len(s) - Len(sub) + 1) : SubSeq(s, i, i + Len(sub) - 1) = sub

PhoneWord == <<"p", "h", "o", "n", "e">>

\* every character of s[from..to] lies in the class, and the range is not empty
allIn(s, from, to, class) ==
    /\ from <= to
    /\ \A k \in from..to : s[k] \in class

\* the characters [^\s@] may match, among those of string s
notSpaceAt(s) == {s[k] : k \in 1..Len(s)} \ (Whitespace \cup {"@"})

\* a variant that forgets the dot of the domain: /^[^\s@]+@[^\s@]+$/
emailRegexTest_noDot(s) ==
    \E i \in 1..Len(s) :
        /\ allIn(s, 1, i - 1, notSpaceAt(s))
        /\ s[i] = "@"
        /\ allIn(s, i + 1, Len(s), notSpaceAt(s))

\* /^[^\s@]+@[^\s@]+\.[^\s@]+$/.test(s)
emailRegexTest(s) ==
    \E i \in 1..Len(s) : \E j \in 1..Len(s) :
        /\ i < j
        /\ allIn(s, 1, i - 1, notSpaceAt(s))
        /\ s[i] = "@"
        /\ allIn(s, i + 1, j - 1, notSpaceAt(s))
        /\ s[j] = "."
        /\ allIn(s, j + 1, Len(s), notSpaceAt(s))

\* the class [\d\s\-\(\)]
PhoneChars == Digits \cup Whitespace \cup {"-", "(", ")"}

\* /^[\+]?[\d\s\-\(\)]{10,}$/.test(s)
phoneRegexTest(s) ==
    \/ /\ Len(s) >= PhoneMinLength
       /\ allIn(s, 1, Len(s), PhoneChars)
    \/ /\ Len(s) >= PhoneMinLength + 1
       /\ s[1] = "+"
       /\ allIn(s, 2, Len(s), PhoneChars)

(***************************************************************************)
(* validateField: the verdict and the message, before the DOM is touched.  *)
(* A field is [tagName, type, name, required, value].                      *)
(***************************************************************************)
Verdict(ok, msg) == [isValid |-> ok, errorMessage |-> msg]

nameHasPhone(field) ==
    field.name # <<>> /\ includes(toLowerCase(field.name), PhoneWord)

\* the text length rules of the last branch
lengthRule(field, value) ==
    IF field.tagName = "TEXTAREA" /\ Len(value) < TextareaMinLength
    THEN Verdict(FALSE, MsgTextarea)
    ELSE IF /\ field.tagName = "INPUT"
            /\ field.type = "text"
            /\ Len(value) < InputMinLength
    THEN Verdict(FALSE, MsgInput)
    ELSE Verdict(TRUE, "")

\* a variant that tests the text length before the phone rule
validateField_lengthFirst(field) ==
    LET value == trim(field.value)
    IN  IF field.required /\ value = <<>>
        THEN Verdict(FALSE, MsgRequired)
        ELSE IF field.type = "email" /\ value # <<>>
        THEN IF ~emailRegexTest(value)
             THEN Verdict(FALSE, MsgEmail)
             ELSE Verdict(TRUE, "")
        ELSE IF Len(value) > 0 /\ ~lengthRule(field, value).isValid
        THEN lengthRule(field, value)
        ELSE IF nameHasPhone(field) /\ value # <<>> /\ ~phoneRegexTest(value)
        THEN Verdict(FALSE, MsgPhone)
        ELSE Verdict(TRUE, "")

\* a variant that runs the email rule first, also on an empty value
validateField_emailFirst(field) ==
    LET value == trim(field.value)
    IN  IF field.type = "email"
        THEN IF ~emailRegexTest(value)
             THEN Verdict(FALSE, MsgEmail)
             ELSE Verdict(TRUE, "")
        ELSE IF field.required /\ value = <<>>
        THEN Verdict(FALSE, MsgRequired)
        ELSE IF nameHasPhone(field) /\ value # <<>>
        THEN IF ~phoneRegexTest(value)
             THEN Verdict(FALSE, MsgPhone)
             ELSE Verdict(TRUE, "")
        ELSE IF Len(value) > 0
        THEN lengthRule(field, value)
        ELSE Verdict(TRUE, "")

\* a variant whose textarea rule is off by one (<= instead of <)
validateField_offByOne(field) ==
    LET value == trim(field.value)
    IN  IF field.required /\ value = <<>>
        THEN Verdict(FALSE, MsgRequired)
        ELSE IF field.type = "email" /\ value # <<>>
        THEN IF ~emailRegexTest(value)
             THEN Verdict(FALSE, MsgEmail)
             ELSE Verdict(TRUE, "")
        ELSE IF nameHasPhone(field) /\ value # <<>>
        THEN IF ~phoneRegexTest(value)
             THEN Verdict(FALSE, MsgPhone)
             ELSE Verdict(TRUE, "")
        ELSE IF Len(value) > 0
        THEN IF field.tagName = "TEXTAREA" /\ Len(value) <= TextareaMinLength
             THEN Verdict(FALSE, MsgTextarea)
             ELSE lengthRule(field, value)
        ELSE Verdict(TRUE, "")

validateField(field) ==
    LET value == trim(field.value)
        fieldType == field.type
        isRequired == field.required
    IN  IF isRequired /\ value = <<>>
        THEN Verdict(FALSE, MsgRequired)
        ELSE IF fieldType = "email" /\ value # <<>>
        THEN IF ~emailRegexTest(value)
             THEN Verdict(FALSE, MsgEmail)
             ELSE Verdict(TRUE, "")
        ELSE IF nameHasPhone(field) /\ value # <<>>
        THEN IF ~phoneRegexTest(value)
             THEN Verdict(FALSE, MsgPhone)
             ELSE Verdict(TRUE, "")
        ELSE IF Len(value) > 0
        THEN lengthRule(field, value)
        ELSE Verdict(TRUE, "")

(***************************************************************************)
(* The inputs of the field-level specification.                            *)
(***************************************************************************)
\* tagName and the type property the DOM reports for it
TagTypes ==
    { <<"INPUT", "text">>, <<"INPUT", "email">>, <<"INPUT", "tel">>,
      <<"TEXTAREA", "textarea">>, <<"SELECT", "select-one">> }

FieldNames ==
    { <<>>, <<"m", "s", "g">>, <<"p", "h", "o", "n", "e">>,
      <<"H", "o", "m", "e", "P", "h", "o", "n", "e">> }

ShortAlphabet == {"a", " ", "@", "."}

RECURSIVE SeqsUpTo(_, _)
SeqsUpTo(S, n) ==
    IF n = 0 THEN {<<>>}
    ELSE LET shorter == SeqsUpTo(S, n - 1)
         IN  shorter \cup {Append(s, c) : s \in shorter, c \in S}

run(c, n) == [i \in 1..n |-> c]

LongValues ==
    { pre \o run(c, n) \o post :
        pre \in {<<>>, <<" ">>, <<"+">>},
        c \in {"a", "1", "-"},
        n \in 0..MaxRun,
        post \in {<<>>, <<" ">>, <<"a">>, <<"(", "1", ")">>} }

FieldValues == SeqsUpTo(ShortAlphabet, MaxShort) \cup LongValues

(***************************************************************************)
(* A form in the document.  The record F holds                             *)
(*   fields:      the input, textarea and select elements in document      *)
(*                order, each [tagName, type, name, required, value,       *)
(*                group], group being the number of the closest            *)
(*                .form-group ancestor, 0 when there is none;              *)
(*   groupError, groupValid: which groups carry form-group--error and      *)
(*                form-group--valid;                                       *)
(*   errs:        per field, the .field-error elements that were inserted  *)
(*                right after it, nearest first, each [message, forValue]  *)
(*                (forValue: the trimmed value the message was computed    *)
(*                for, kept for the claims);                               *)
(*   ariaInvalid: which fields carry aria-invalid and aria-describedby;    *)
(*   focus:       the focused field, 0 when the focus is elsewhere.        *)
(***************************************************************************)
fieldIds(F) == 1..Len(F.fields)
groupOf(F, i) == F.fields[i].group
inGroup(F, g) == {i \in fieldIds(F) : groupOf(F, i) = g}

Min(S) == CHOOSE x \in S : \A y \in S : x <= y

\* the fields of group g that have an error element after them
withError(F, g) == {i \in inGroup(F, g) : F.errs[i] # <<>>}

\* formGroup.querySelector('.field-error') followed by errorElement.remove()
removeFirstError(F, g) ==
    IF withError(F, g) = {} THEN F
    ELSE LET i == Min(withError(F, g))
         IN  [F EXCEPT !.errs[i] = Tail(@)]

\* a variant that leaves the existing error element in place
showFieldError_keepOld(F, i, message) ==
    LET g == groupOf(F, i)
    IN  IF g = 0 THEN F
        ELSE [F EXCEPT
                !.errs[i] = <<[message |-> message,
                               forValue |-> trim(F.fields[i].value)]>> \o @,
                !.ariaInvalid[i] = TRUE]

showFieldError(F, i, message) ==
    LET g == groupOf(F, i)
    IN  IF g = 0 THEN F
        ELSE LET F1 == removeFirstError(F, g)
             IN  [F1 EXCEPT
                    !.errs[i] = <<[message |-> message,
                                   forValue |-> trim(F.fields[i].value)]>> \o @,
                    !.ariaInvalid[i] = TRUE]

\* a variant that forgets the aria attributes
clearFieldError_keepAria(F, i) ==
    LET g == groupOf(F, i)
    IN  IF g = 0 THEN F
        ELSE [removeFirstError(F, g) EXCEPT !.groupError[g] = FALSE]

clearFieldError(F, i) ==
    LET g == groupOf(F, i)
    IN  IF g = 0 THEN F
        ELSE LET F1 == removeFirstError(F, g)
             IN  [F1 EXCEPT !.groupError[g] = FALSE,
                            !.ariaInvalid[i] = FALSE]

clearValidationErrors(F) ==
    [F EXCEPT !.errs = [i \in fieldIds(F) |-> <<>>],
              !.groupError = [g \in DOMAIN F.groupError |-> FALSE],
              !.groupValid = [g \in DOMAIN F.groupValid |-> FALSE],
              !.ariaInvalid = [i \in fieldIds(F) |-> FALSE]]

\* the part of validateField that updates the field's UI
\* judged is history: what validateField returned for the field last
updateFieldUI(F, i) ==
    LET v == validateField(F.fields[i])
        g == groupOf(F, i)
        J == [F EXCEPT !.judged[i] = IF v.isValid THEN "valid" ELSE "invalid"]
    IN  IF g = 0 THEN J
        ELSE IF v.isValid
        THEN [J EXCEPT !.groupError[g] = FALSE, !.groupValid[g] = TRUE]
        ELSE showFieldError([J EXCEPT !.groupValid[g] = FALSE,
                                      !.groupError[g] = TRUE],
                            i, v.errorMessage)

\* element.focus(): the focus moves to target t; the field that loses it gets
\* a blur event, whose listener (initFormValidation) runs validateField on it
focusOn(F, t) ==
    IF F.focus = t THEN F
    ELSE LET F1 == IF F.focus # 0 THEN updateFieldUI(F, F.focus) ELSE F
         IN  [F1 EXCEPT !.focus = t]

\* fields.forEach(field => { if (!validateField(field)) isValid = false; })
\* from field i on; R is [form, isValid]
RECURSIVE validateEach(_, _)
validateEach(R, i) ==
    IF i > Len(R.form.fields) THEN R
    ELSE validateEach(
            [form |-> updateFieldUI(R.form, i),
             isValid |-> IF validateField(R.form.fields[i]).isValid
                         THEN R.isValid ELSE FALSE],
            i + 1)

\* form.querySelector('.form-group--error input, .form-group--error textarea,
\* .form-group--error select'): the fields inside a group that carries the class
inErrorGroup(F) ==
    {i \in fieldIds(F) : groupOf(F, i) # 0 /\ F.groupError[groupOf(F, i)]}

\* validateForm: [form |-> the form afterwards, isValid |-> what it returns]
validateForm(F) ==
    LET R == validateEach([form |-> clearValidationErrors(F), isValid |-> TRUE], 1)
    IN  IF ~R.isValid /\ inErrorGroup(R.form) # {}
        THEN [R EXCEPT !.form = focusOn(R.form, Min(inErrorGroup(R.form)))]
        ELSE R

\* form.reset(): every field back to its default value, here the empty string
resetForm(F) ==
    [F EXCEPT !.fields = [i \in fieldIds(F) |->
                             [F.fields[i] EXCEPT !.value = F.fields[i].default]]]

(***************************************************************************)
(* Autosave: the draft of a form[data-autosave] in local storage.  A JSON  *)
(* text is a sequence of tokens; a string token carries its characters.    *)
(***************************************************************************)
Tok(t, chars) == [t |-> t, s |-> chars]
LBrace == Tok("{", <<>>)
RBrace == Tok("}", <<>>)
Colon == Tok(":", <<>>)
Comma == Tok(",", <<>>)
NullTok == Tok("null", <<>>)
StrTok(chars) == Tok("str", chars)

\* the members of an object, from its pairs [name, value]
RECURSIVE members(_)
members(pairs) ==
    IF pairs = <<>> THEN <<>>
    ELSE <<StrTok(pairs[1].name), Colon, StrTok(pairs[1].value)>>
           \o (IF Len(pairs) = 1 THEN <<>> ELSE <<Comma>> \o members(Tail(pairs)))

\* JSON.stringify of a flat object of strings
stringify(pairs) == <<LBrace>> \o members(pairs) \o <<RBrace>>

\* the pairs of a member list; ok is FALSE where JSON.parse throws
RECURSIVE parseMembers(_)
parseMembers(ts) ==
    IF Len(ts) < 3 \/ ts[1].t # "str" \/ ts[2] # Colon \/ ts[3].t \notin {"str", "null"}
    THEN [ok |-> FALSE, pairs |-> <<>>]
    ELSE LET pair == [name |-> ts[1].s, value |-> ts[3].s]
         IN  IF Len(ts) = 3 THEN [ok |-> TRUE, pairs |-> <<pair>>]
             ELSE IF ts[4] # Comma THEN [ok |-> FALSE, pairs |-> <<>>]
             ELSE LET rest == parseMembers(SubSeq(ts, 5, Len(ts)))
                  IN  [ok |-> rest.ok, pairs |-> <<pair>> \o rest.pairs]

\* JSON.parse: [ok, kind, pairs]; a null member value reads as the empty,
\* falsy value
parse(text) ==
    IF text = <<NullTok>> THEN [ok |-> TRUE, kind |-> "null", pairs |-> <<>>]
    ELSE IF Len(text) = 1 /\ text[1].t = "str"
    THEN [ok |-> TRUE, kind |-> "string", pairs |-> <<>>]
    ELSE IF Len(text) >= 2 /\ text[1] = LBrace /\ text[Len(text)] = RBrace
    THEN IF Len(text) = 2 THEN [ok |-> TRUE, kind |-> "object", pairs |-> <<>>]
         ELSE LET ms == parseMembers(SubSeq(text, 2, Len(text) - 1))
              IN  [ok |-> ms.ok, kind |-> "object", pairs |-> ms.pairs]
    ELSE [ok |-> FALSE, kind |-> "none", pairs |-> <<>>]

\* what localStorage.getItem returns: null for an absent key, else the text
Absent == [present |-> FALSE, text |-> <<>>]
Stored(text) == [present |-> TRUE, text |-> text]

\* the fields called name
named(F, name) == {i \in fieldIds(F) : F.fields[i].name = name}
Max(S) == CHOOSE x \in S : \A y \in S : y <= x

\* Object.fromEntries(new FormData(form)): the fields that have a name, a
\* name once, at its first place and with the value of its last field
RECURSIVE entriesFrom(_, _)
entriesFrom(F, i) ==
    IF i > Len(F.fields) THEN <<>>
    ELSE LET nm == F.fields[i].name
         IN  (IF nm # <<>> /\ Min(named(F, nm)) = i
              THEN <<[name |-> nm, value |-> F.fields[Max(named(F, nm))].value]>>
              ELSE <<>>) \o entriesFrom(F, i + 1)
formData(F) == entriesFrom(F, 1)

\* Object.keys(data).forEach of loadFormData: the first field of the name
\* gets the value, unless the value is falsy
RECURSIVE restoreEach(_, _)
restoreEach(F, pairs) ==
    IF pairs = <<>> THEN F
    ELSE LET hit == named(F, pairs[1].name)
             G == IF hit # {} /\ pairs[1].value # <<>>
                  THEN [F EXCEPT !.fields[Min(hit)].value = pairs[1].value]
                  ELSE F
         IN  restoreEach(G, Tail(pairs))

\* a variant that empties the form when the entry cannot be used
loadFormData_clearOnBad(F, entry) ==
    IF entry.present /\ parse(entry.text).ok /\ parse(entry.text).kind = "object"
    THEN restoreEach(F, parse(entry.text).pairs)
    ELSE [F EXCEPT !.fields = [i \in fieldIds(F) |-> [F.fields[i] EXCEPT !.value = <<>>]]]

\* loadFormData(form, storageKey) on what getItem returned: nothing for null
\* or the empty string; JSON.parse may throw, Object.keys throws on null,
\* and the catch block leaves the form alone; the keys of a string are
\* indices, which name no field
loadFormData(F, entry) ==
    IF ~entry.present \/ entry.text = <<>> THEN F
    ELSE LET data == parse(entry.text)
         IN  IF ~data.ok \/ data.kind # "object" THEN F
             ELSE restoreEach(F, data.pairs)

\* a variant of debounce that does not clear the pending timer
debounced_noClear(pending) == pending + 1

\* debounce: clearTimeout(timeout); timeout = setTimeout(later, wait)
debounced(pending) == 1

(***************************************************************************)
(* Theme: the data-theme attribute of the document element, the 'theme'    *)
(* key of local storage and the system colour scheme.  "null" stands for   *)
(* an absent attribute or key.                                             *)
(***************************************************************************)
\* what the markup may carry as data-theme before any script runs
InitialAttrs == {"null", "light", "dark", "auto"}
\* what local storage may hold under 'theme' when the page loads
StoredValues == {"null", "", "light", "dark", "auto", "sepia"}

\* prefersDark.matches ? 'dark' : 'light'
systemTheme(matches) == IF matches THEN "dark" ELSE "light"

\* a variant that never reads the saved theme
savedOrSystem_ignoreSaved(saved, matches) == systemTheme(matches)

\* savedTheme || systemTheme: null and the empty string are falsy
savedOrSystem(saved, matches) ==
    IF saved \in {"null", ""} THEN systemTheme(matches) ELSE saved

\* a variant of the change listener without its test of local storage
followsSystem_always(saved) == TRUE

\* !localStorage.getItem('theme'), the test of the change listener
followsSystem(saved) == saved \in {"null", ""}

\* the aria-label updateThemeToggleState gives the toggle
toggleLabel(theme) ==
    IF theme = "dark" THEN "Switch to light mode" ELSE "Switch to dark mode"

\* a variant with a mistyped comparison, which never yields 'light'
newTheme_mistyped(currentTheme) == "dark"

\* currentTheme === 'dark' ? 'light' : 'dark'
newTheme(currentTheme) == IF currentTheme = "dark" THEN "light" ELSE "dark"

VARIABLES
    fld,           \* the field handed to validateField
    verdict,       \* <<what validateField returned for it>>, or <<>> before the call
    dataTheme,     \* document.documentElement's data-theme attribute
    storedTheme,   \* localStorage 'theme'
    prefersDark,   \* matchMedia('(prefers-color-scheme: dark)').matches
    themeLabel,    \* aria-label of #theme-toggle
    themeLoaded,   \* initTheme has run on this page load
    themeTrail,    \* history: data-theme at the last load or system change and
                   \* after each toggle since
    lastToggle,    \* history: the theme the last toggleTheme chose on any visit,
                   \* "none" before the first toggle
    themeEvent,    \* history: the last theme event, "none", "init", "toggle",
                   \* "system" or "reload"
    form,          \* the form and its validation state (the record F above)
    formKind,      \* "quote": submitted through handleQuote, in the quote modal;
                   \* "contact": submitted through handleContactSubmit
    btnText,       \* textContent of the form's submit button
    btnDisabled,   \* its disabled property
    quoteTimers,   \* pending 1.5 s timers of handleQuote, oldest first, each
                   \* the originalText its callback closes over and, as
                   \* history, whether the closed modal was opened again since
    contactCalls,  \* pending simulateApiCall promises of handleContactSubmit,
                   \* each the originalText the handler closes over
    toast,         \* #toast: [show, error, message]
    toastTimers,   \* pending 5 s timers of showToast
    modal,         \* #quote-modal: [open, ariaHidden, overflow]
    focusTimers,   \* pending 100 ms focus timers of openQuoteModal
    submitLimit,   \* how many submissions that pass validation the user makes
    accepted,      \* history: submissions that passed validation
    toastCount,    \* history: calls of showToast
    loads,         \* the two content loads of loadPageContent, by name: the
                   \* target region, how far the load has come, the response
    formId,        \* "none": the form has no data-autosave attribute;
                   \* "declared": it has one and an id; "generated": it has
                   \* one and no id
    storageKey,    \* the key initFormAutosave computed on this page load: 0 is
                   \* 'velox-form-' + form.id, n > 0 the random key of load n
    localStorage,  \* what local storage holds under each of these keys
    saveTimers,    \* pending 1 s timers of the debounced saveFormData
    removeTimers,  \* pending 2 s removal timers, oldest first, each the number
                   \* of the submission that started it, 0 for a blocked one
    draftTrail,    \* history of the autosave: page loads so far, input events
                   \* of the burst under way or ended last, whether saveFormData has written on
                   \* this load, how the simulated submission ended
    scrollTop,     \* window.pageYOffset
    lastScrollTop, \* the variable of that name in initStickyHeader
    headerShrunk,  \* #header carries the header--shrunk class
    inThrottle,    \* the flag of the throttled scroll listener of
                   \* initStickyHeader; its timer is pending while it is TRUE
    ev             \* history: the last event, [kind, field, hadError]; the kinds
                   \* are "input" on a field, "blocked" for a submit event that
                   \* validation stopped, "resolved" and "rejected" for the end
                   \* of pending simulateApiCall number field, else "other"

fieldVars == <<fld, verdict>>
themeVars ==
    <<dataTheme, storedTheme, prefersDark, themeLabel, themeLoaded, themeTrail,
      lastToggle, themeEvent>>
formVars ==
    <<form, formKind, btnText, btnDisabled, quoteTimers, contactCalls, toast,
      toastTimers, modal, focusTimers, submitLimit, accepted, toastCount, ev>>
loadVars == <<loads>>
scrollVars == <<scrollTop, lastScrollTop, headerShrunk, inThrottle>>
draftVars == <<formId, storageKey, localStorage, saveTimers, removeTimers, draftTrail>>
vars == <<fieldVars, themeVars, formVars, loadVars, draftVars, scrollVars>>

(***************************************************************************)
(* The field-level specification: validateField on every field of the      *)
(* bounded input set.                                                      *)
(***************************************************************************)
FieldInit ==
    /\ \E tt \in TagTypes, nm \in FieldNames, rq \in BOOLEAN, v \in FieldValues :
          fld = [tagName |-> tt[1], type |-> tt[2], name |-> nm,
                 required |-> rq, value |-> v]
    /\ verdict = <<>>

\* no field is under validation
FieldIdle ==
    /\ fld = [tagName |-> "INPUT", type |-> "text", name |-> <<>>,
              required |-> FALSE, value |-> <<>>]
    /\ verdict = <<>>

\* a page whose theme script is not looked at
ThemeIdle ==
    /\ dataTheme = "null"
    /\ storedTheme = "null"
    /\ prefersDark = FALSE
    /\ themeLabel = "null"
    /\ themeLoaded = FALSE
    /\ themeTrail = <<>>
    /\ lastToggle = "none"
    /\ themeEvent = "none"

\* the modal as window.closeQuoteModal leaves it, and as the page loads
ModalClosed == [open |-> FALSE, ariaHidden |-> "true", overflow |-> ""]
ToastHidden == [show |-> FALSE, error |-> FALSE, message |-> ""]
OtherEvent == [kind |-> "other", field |-> 0, hadError |-> FALSE]

\* a page without a form under observation
FormIdle ==
    /\ form = [fields |-> <<>>, groupError |-> <<>>, groupValid |-> <<>>,
               errs |-> <<>>, ariaInvalid |-> <<>>, judged |-> <<>>, focus |-> 0]
    /\ formKind = "none"
    /\ btnText = ""
    /\ btnDisabled = FALSE
    /\ quoteTimers = <<>>
    /\ contactCalls = <<>>
    /\ toast = ToastHidden
    /\ toastTimers = 0
    /\ modal = ModalClosed
    /\ focusTimers = 0
    /\ submitLimit = 0
    /\ accepted = 0
    /\ toastCount = 0
    /\ ev = OtherEvent

\* the regions of a page whose content loads are not looked at
Loads == {"products", "testimonials"}
InitialRegion == [kind |-> "initial", items |-> 0]
NoBody == [kind |-> "none", items |-> 0]
LoadIdle ==
    loads = [w \in Loads |->
                [container |-> FALSE, carousel |-> "absent", stage |-> "idle",
                 body |-> NoBody, region |-> InitialRegion, failed |-> FALSE]]

\* a page without a form[data-autosave]
NoTrail ==
    [loads |-> 1, burst |-> 0, written |-> FALSE, outcome |-> "none"]
DraftIdle ==
    /\ formId = "none"
    /\ storageKey = 0
    /\ localStorage = [k \in 0..MaxLoads |-> Absent]
    /\ saveTimers = 0
    /\ removeTimers = <<>>
    /\ draftTrail = NoTrail

\* the page at the top, as initStickyHeader finds it
ScrollInit ==
    /\ scrollTop = 0
    /\ lastScrollTop = 0
    /\ headerShrunk = FALSE
    /\ inThrottle = FALSE

\* validateField is run on the field
ValidateOne ==
    /\ verdict = <<>>
    /\ verdict' = <<validateField(fld)>>
    /\ UNCHANGED <<fld, themeVars, formVars, loadVars, draftVars, scrollVars>>

NextField == ValidateOne

FieldSpecInit == FieldInit /\ ThemeIdle /\ FormIdle /\ LoadIdle /\ DraftIdle /\ ScrollInit

SpecField == FieldSpecInit /\ [][NextField]_vars

(***************************************************************************)
(* The theme specification.                                                *)
(***************************************************************************)
ThemeInit ==
    /\ dataTheme \in InitialAttrs
    /\ storedTheme \in StoredValues
    /\ prefersDark \in BOOLEAN
    /\ themeLabel = "null"
    /\ themeLoaded = FALSE
    /\ themeTrail = <<>>
    /\ lastToggle = "none"
    /\ themeEvent = "none"

\* initTheme, on DOMContentLoaded
initTheme ==
    /\ ~themeLoaded
    /\ LET currentTheme == savedOrSystem(storedTheme, prefersDark)
       IN  /\ dataTheme' = currentTheme
           /\ themeLabel' = toggleLabel(currentTheme)
           /\ themeTrail' = <<currentTheme>>
    /\ themeLoaded' = TRUE
    /\ themeEvent' = "init"
    /\ UNCHANGED <<storedTheme, prefersDark, lastToggle, fieldVars, formVars, loadVars, draftVars, scrollVars>>

\* toggleTheme, the click listener initTheme registers on #theme-toggle
toggleTheme ==
    /\ themeLoaded
    /\ Len(themeTrail) <= MaxToggles
    /\ LET new == newTheme(dataTheme)
       IN  /\ dataTheme' = new
           /\ storedTheme' = new
           /\ themeLabel' = toggleLabel(new)
           /\ themeTrail' = Append(themeTrail, new)
           /\ lastToggle' = new
    /\ themeEvent' = "toggle"
    /\ UNCHANGED <<prefersDark, themeLoaded, fieldVars, formVars, loadVars, draftVars, scrollVars>>

\* the system colour scheme changes; the 'change' listener of initTheme
\* follows it only while nothing is stored
systemThemeChange ==
    /\ prefersDark' = ~prefersDark
    /\ themeEvent' = "system"
    /\ IF themeLoaded /\ followsSystem(storedTheme)
       THEN LET new == systemTheme(prefersDark')
            IN  /\ dataTheme' = new
                /\ themeLabel' = toggleLabel(new)
                /\ themeTrail' = <<new>>
       ELSE UNCHANGED <<dataTheme, themeLabel, themeTrail>>
    /\ UNCHANGED <<storedTheme, themeLoaded, lastToggle, fieldVars, formVars, loadVars, draftVars, scrollVars>>

\* the page is left and loaded again: the document starts from its markup,
\* local storage is kept
pageReload ==
    /\ themeLoaded
    /\ dataTheme' \in InitialAttrs
    /\ themeLabel' = "null"
    /\ themeLoaded' = FALSE
    /\ themeTrail' = <<>>
    /\ themeEvent' = "reload"
    /\ UNCHANGED <<storedTheme, prefersDark, lastToggle, fieldVars, formVars, loadVars, draftVars, scrollVars>>

NextTheme ==
    \/ initTheme
    \/ toggleTheme
    \/ systemThemeChange
    \/ pageReload

ThemeSpecInit == ThemeInit /\ FieldIdle /\ FormIdle /\ LoadIdle /\ DraftIdle /\ ScrollInit

SpecTheme == ThemeSpecInit /\ [][NextTheme]_vars

(***************************************************************************)
(* Content loading: loadPageContent starts loadFeaturedProducts and        *)
(* loadTestimonials; each fetches a JSON document and renders it into its  *)
(* region of the page.                                                     *)
(***************************************************************************)
\* what a response may carry: text that is not JSON, a JSON object, an array
\* with a null entry, an array of items
Bodies ==
    {[kind |-> k, items |-> 0] : k \in {"notJSON", "object"}}
      \cup {[kind |-> "nullItem", items |-> n] : n \in 1..MaxItems}
      \cup {[kind |-> "array", items |-> n] : n \in 0..MaxItems}

\* window.initTestimonialsCarousel: not defined, defined, or defined and throwing
Carousels == {"absent", "ok", "throws"}

\* a variant of the catch blocks that leaves the region as it is
UnableRegion_keep(r) == r

\* the catch blocks: the static 'Unable to load ...' markup
UnableRegion(r) == [kind |-> "unable", items |-> 0]

\* products.slice(0, 3)
slice3(n) == IF n < 3 THEN n ELSE 3

\* the try block after response.json() has resolved with body b: slice and
\* map throw a TypeError on what is not an array, the template on a null
\* entry, and the carousel may throw after the slides are in place
rendered(w, L, b) ==
    IF b.kind # "array" THEN UnableRegion(L.region)
    ELSE IF w = "products" THEN [kind |-> "cards", items |-> slice3(b.items)]
    ELSE IF L.carousel = "throws"
         THEN UnableRegion([kind |-> "slides", items |-> b.items])
         ELSE [kind |-> "slides", items |-> b.items]

LoadInit ==
    /\ \E c \in [Loads -> BOOLEAN], t \in Carousels :
          loads = [w \in Loads |->
                      [container |-> c[w],
                       carousel |-> IF w = "testimonials" THEN t ELSE "absent",
                       stage |-> "idle", body |-> NoBody,
                       region |-> InitialRegion, failed |-> FALSE]]

\* loadPageContent: both loads start; one without its container returns
loadPageContent ==
    /\ \A w \in Loads : loads[w].stage = "idle"
    /\ loads' = [w \in Loads |->
                    [loads[w] EXCEPT !.stage =
                        IF loads[w].container THEN "fetch" ELSE "done"]]
    /\ UNCHANGED <<fieldVars, themeVars, formVars, draftVars, scrollVars>>

\* fetch rejects: the catch block
fetchFails(w) ==
    /\ loads[w].stage = "fetch"
    /\ loads' = [loads EXCEPT ![w].stage = "done", ![w].failed = TRUE,
                              ![w].region = UnableRegion(@)]
    /\ UNCHANGED <<fieldVars, themeVars, formVars, draftVars, scrollVars>>

\* fetch resolves with a response
fetchResolves(w, b) ==
    /\ loads[w].stage = "fetch"
    /\ loads' = [loads EXCEPT ![w].stage = "json", ![w].body = b]
    /\ UNCHANGED <<fieldVars, themeVars, formVars, draftVars, scrollVars>>

\* response.json() settles: it rejects on text that is not JSON, else the
\* rest of the try block runs
jsonSettles(w) ==
    /\ loads[w].stage = "json"
    /\ loads' =
          IF loads[w].body.kind = "notJSON"
          THEN [loads EXCEPT ![w].stage = "done", ![w].failed = TRUE,
                             ![w].region = UnableRegion(@)]
          ELSE [loads EXCEPT ![w].stage = "done",
                             ![w].region = rendered(w, loads[w], loads[w].body)]
    /\ UNCHANGED <<fieldVars, themeVars, formVars, draftVars, scrollVars>>

NextLoad ==
    \/ loadPageContent
    \/ \E w \in Loads : fetchFails(w)
    \/ \E w \in Loads, b \in Bodies : fetchResolves(w, b)
    \/ \E w \in Loads : jsonSettles(w)

LoadSpecInit == LoadInit /\ FieldIdle /\ ThemeIdle /\ FormIdle /\ DraftIdle /\ ScrollInit

SpecLoad == LoadSpecInit /\ [][NextLoad]_vars

(***************************************************************************)
(* The form specification: one form of the page, its fields, its submit    *)
(* button, the toast and the quote modal, under the events of the user     *)
(* and the timers the handlers start.                                      *)
(***************************************************************************)
OrigLabel == "Send"
SendingLabel == "Sending..."

QuoteSentMsg == "Quote request sent successfully! We'll get back to you within 24 hours."
ContactSentMsg == "Message sent successfully! We'll respond within 24 hours."
ContactFailedMsg == "Sorry, there was an error sending your message. Please try again."

\* the kinds of field the forms of the model are built from: a required text
\* input and an optional textarea, in turn
RequiredText ==
    [tagName |-> "INPUT", type |-> "text", name |-> <<>>, required |-> TRUE]
OptionalTextarea ==
    [tagName |-> "TEXTAREA", type |-> "textarea", name |-> <<"m", "s", "g">>,
     required |-> FALSE]
MixedKinds == [i \in 1..NFields |-> IF i % 2 = 1 THEN RequiredText ELSE OptionalTextarea]

\* the values the user types
FormValues == {<<>>, <<"a">>, <<"a", "a">>}

\* the ways the fields sit in .form-group elements: a group is numbered by
\* its first field, 0 is no group
GroupLayouts ==
    {G \in [1..NFields -> 0..NFields] :
        \A i \in 1..NFields : G[i] # 0 => (G[i] <= i /\ G[G[i]] = G[i])}

\* the form as the page loads: fields of kinds K in groups G, every value empty
formStart(K, G) ==
    [fields |-> [i \in 1..NFields |->
                    [tagName |-> K[i].tagName, type |-> K[i].type,
                     name |-> K[i].name, required |-> K[i].required,
                     value |-> <<>>, default |-> <<>>, group |-> G[i]]],
     groupError |-> [g \in 1..NFields |-> FALSE],
     groupValid |-> [g \in 1..NFields |-> FALSE],
     errs |-> [i \in 1..NFields |-> <<>>],
     ariaInvalid |-> [i \in 1..NFields |-> FALSE],
     judged |-> [i \in 1..NFields |-> "none"],
     focus |-> 0]

\* the page as it loads, but for the form's fields and the user's stamina
PageInit ==
    /\ formKind \in {"quote", "contact"}
    /\ btnText = OrigLabel
    /\ btnDisabled = FALSE
    /\ quoteTimers = <<>>
    /\ contactCalls = <<>>
    /\ toast = ToastHidden
    /\ toastTimers = 0
    /\ modal = ModalClosed
    /\ focusTimers = 0
    /\ accepted = 0
    /\ toastCount = 0
    /\ ev = OtherEvent

\* every arrangement of fields and groups, one submission that passes
FormInit ==
    /\ \E G \in GroupLayouts : form = formStart(MixedKinds, G)
    /\ submitLimit = 1
    /\ PageInit

\* required text inputs, each in a group of its own, MaxSubmits submissions
SubmitInit ==
    /\ form = formStart([i \in 1..NFields |-> RequiredText],
                        [i \in 1..NFields |-> i])
    /\ submitLimit = MaxSubmits
    /\ PageInit

\* what no handler of the form touches
others == <<submitLimit, fieldVars, themeVars, loadVars, scrollVars>>

\* the field shows an error: a message, the class on its group or aria-invalid
showsError(F, i) ==
    \/ F.errs[i] # <<>>
    \/ F.ariaInvalid[i]
    \/ groupOf(F, i) # 0 /\ F.groupError[groupOf(F, i)]

\* the user moves the focus to target t (a field, or 0: anything else); the
\* field that had it gets a blur event
userFocus(t) ==
    /\ t # form.focus
    /\ form' = focusOn(form, t)
    /\ ev' = OtherEvent
    /\ UNCHANGED <<formKind, btnText, btnDisabled, quoteTimers, contactCalls,
                   toast, toastTimers, modal, focusTimers, accepted, toastCount, others, draftVars>>

\* the 'input' listener initFormAutosave puts on a form[data-autosave]: the
\* debounced saveFormData
autosaveOnInput ==
    IF formId = "none" THEN UNCHANGED draftVars
    ELSE /\ saveTimers' = debounced(saveTimers)
         /\ draftTrail' = [draftTrail EXCEPT !.burst =
                               IF saveTimers = 0 THEN 1
                               ELSE IF @ < MaxBurst THEN @ + 1 ELSE @]
         /\ UNCHANGED <<formId, storageKey, localStorage, removeTimers>>

\* its 'submit' listener, which runs after the form's own handler: a 2 s
\* timer that removes the draft
autosaveOnSubmit ==
    IF formId = "none" THEN UNCHANGED draftVars
    ELSE /\ Len(removeTimers) < MaxRemoveTimers
         /\ removeTimers' = Append(removeTimers,
                                  IF accepted' = accepted THEN 0 ELSE accepted')
         /\ UNCHANGED <<formId, storageKey, localStorage, saveTimers, draftTrail>>

\* the user edits the focused field i to value v; the 'input' listener of
\* initFormValidation runs clearFieldError
userInput(i, v) ==
    /\ form.focus = i
    /\ v # form.fields[i].value
    /\ form' = clearFieldError([form EXCEPT !.fields[i].value = v], i)
    /\ ev' = [kind |-> "input", field |-> i, hadError |-> showsError(form, i)]
    /\ autosaveOnInput
    /\ UNCHANGED <<formKind, btnText, btnDisabled, quoteTimers, contactCalls,
                   toast, toastTimers, modal, focusTimers, accepted, toastCount, others>>

\* a variant that never returns early
submissionBlocked_never(R) == FALSE

\* if (!validateForm(form)) { return; }
submissionBlocked(R) == ~R.isValid

\* the submit event of a form whose validation fails
submitBlocked ==
    LET R == validateForm(form)
    IN  /\ submissionBlocked(R)
        /\ form' = R.form
        /\ ev' = [kind |-> "blocked", field |-> 0, hadError |-> FALSE]
        /\ UNCHANGED <<btnText, btnDisabled, quoteTimers, contactCalls, accepted>>

\* the loading state of the submit button, for a submission that goes on
submitSending ==
    LET R == validateForm(form)
    IN  /\ ~submissionBlocked(R)
        /\ accepted < submitLimit
        /\ form' = R.form
        /\ btnText' = SendingLabel
        /\ btnDisabled' = TRUE
        /\ accepted' = accepted + 1
        /\ ev' = OtherEvent

\* window.handleQuote, up to the setTimeout
handleQuote ==
    /\ formKind = "quote"
    /\ \/ submitBlocked
       \/ /\ submitSending
          /\ quoteTimers' = Append(quoteTimers,
                                 [originalText |-> btnText, reopened |-> FALSE])
          /\ UNCHANGED contactCalls
    /\ autosaveOnSubmit
    /\ UNCHANGED <<formKind, toast, toastTimers, modal, focusTimers, toastCount, others>>

\* handleContactSubmit, up to the await
handleContactSubmit ==
    /\ formKind = "contact"
    /\ \/ submitBlocked
       \/ /\ submitSending
          /\ contactCalls' = Append(contactCalls, btnText)
          /\ UNCHANGED quoteTimers
    /\ autosaveOnSubmit
    /\ UNCHANGED <<formKind, toast, toastTimers, modal, focusTimers, toastCount, others>>

\* a variant that starts no timer
showToast_noTimer(message, type) ==
    /\ toast' = [show |-> TRUE, error |-> (type = "error"), message |-> message]
    /\ toastTimers' = toastTimers
    /\ toastCount' = toastCount + 1

\* window.showToast(message, type): the toast and its 5 s timer
showToast(message, type) ==
    /\ toast' = [show |-> TRUE, error |-> (type = "error"), message |-> message]
    /\ toastTimers' = toastTimers + 1
    /\ toastCount' = toastCount + 1

\* form.reset() of window.closeQuoteModal: the quote form is the modal's
formAfterClose(F) == IF formKind = "quote" THEN resetForm(F) ELSE F

\* the callback of handleQuote's timer: the try block, which does not
\* throw, and the finally block
quoteTimerFires ==
    /\ quoteTimers # <<>>
    /\ showToast(QuoteSentMsg, "success")
    /\ modal' = ModalClosed
    /\ form' = formAfterClose(form)
    /\ btnText' = Head(quoteTimers).originalText
    /\ btnDisabled' = FALSE
    /\ quoteTimers' = Tail(quoteTimers)
    /\ ev' = OtherEvent
    /\ UNCHANGED <<formKind, contactCalls, focusTimers, accepted, others, draftVars>>

\* history: how the submission of a form[data-autosave] ended
ended(how) ==
    /\ draftTrail' = IF formId = "none" THEN draftTrail
                     ELSE [draftTrail EXCEPT !.outcome = how]
    /\ UNCHANGED <<formId, storageKey, localStorage, saveTimers, removeTimers>>

dropAt(s, k) == SubSeq(s, 1, k - 1) \o SubSeq(s, k + 1, Len(s))

\* simulateApiCall resolves for pending call k: the rest of the try block
\* of handleContactSubmit and its finally block
contactResolves(k) ==
    /\ k \in 1..Len(contactCalls)
    /\ showToast(ContactSentMsg, "success")
    /\ form' = clearValidationErrors(resetForm(form))
    /\ btnText' = contactCalls[k]
    /\ btnDisabled' = FALSE
    /\ contactCalls' = dropAt(contactCalls, k)
    /\ ev' = [kind |-> "resolved", field |-> k, hadError |-> FALSE]
    /\ ended("sent")
    /\ UNCHANGED <<formKind, quoteTimers, modal, focusTimers, accepted, others>>

\* a variant of the catch block that reports the failure as a success
failureToast_asSuccess == showToast(ContactFailedMsg, "success")

\* the catch block of handleContactSubmit
failureToast == showToast(ContactFailedMsg, "error")

\* simulateApiCall rejects for pending call k: the catch and the finally
\* block of handleContactSubmit
contactRejects(k) ==
    /\ k \in 1..Len(contactCalls)
    /\ failureToast
    /\ btnText' = contactCalls[k]
    /\ btnDisabled' = FALSE
    /\ contactCalls' = dropAt(contactCalls, k)
    /\ ev' = [kind |-> "rejected", field |-> k, hadError |-> FALSE]
    /\ ended("failed")
    /\ UNCHANGED <<form, formKind, quoteTimers, modal, focusTimers, accepted, others>>

\* a 5 s timer of showToast fires: hideToast
toastTimerFires ==
    /\ toastTimers > 0
    /\ toastTimers' = toastTimers - 1
    /\ toast' = [toast EXCEPT !.show = FALSE]
    /\ ev' = OtherEvent
    /\ UNCHANGED <<form, formKind, btnText, btnDisabled, quoteTimers,
                   contactCalls, modal, focusTimers, accepted, toastCount, others, draftVars>>

\* a variant of openQuoteModal that leaves aria-hidden alone
ModalOpened_ariaKept(m) == [m EXCEPT !.open = TRUE, !.overflow = "hidden"]

\* the modal as window.openQuoteModal leaves it: the modal-open class,
\* aria-hidden 'false', body overflow 'hidden'
ModalOpened(m) ==
    [m EXCEPT !.open = TRUE, !.ariaHidden = "false", !.overflow = "hidden"]

\* window.openQuoteModal
openQuoteModal ==
    /\ focusTimers < MaxFocusTimers
    /\ modal' = ModalOpened(modal)
    /\ focusTimers' = focusTimers + 1
    /\ quoteTimers' = [k \in DOMAIN quoteTimers |->
                          [quoteTimers[k] EXCEPT !.reopened = @ \/ ~modal.open]]
    /\ ev' = OtherEvent
    /\ UNCHANGED <<form, formKind, btnText, btnDisabled,
                   contactCalls, toast, toastTimers, accepted, toastCount, others, draftVars>>

\* the 100 ms timer of openQuoteModal: the modal's first input, textarea,
\* select or button gets the focus; that is the first field of the quote
\* form or a button before it
focusTimerFires ==
    /\ focusTimers > 0
    /\ focusTimers' = focusTimers - 1
    /\ \E t \in {0, 1} :
          /\ t = 1 => formKind = "quote"
          /\ form' = focusOn(form, t)
    /\ ev' = OtherEvent
    /\ UNCHANGED <<formKind, btnText, btnDisabled, quoteTimers, contactCalls,
                   toast, toastTimers, modal, accepted, toastCount, others, draftVars>>

\* window.closeQuoteModal, called by the backdrop's click listener
closeQuoteModal ==
    /\ modal' = ModalClosed
    /\ form' = formAfterClose(form)
    /\ ev' = OtherEvent
    /\ UNCHANGED <<formKind, btnText, btnDisabled, quoteTimers, contactCalls,
                   toast, toastTimers, focusTimers, accepted, toastCount, others, draftVars>>

\* the keydown listener of initModals: Escape closes an open modal
escapeKey ==
    /\ modal.open
    /\ closeQuoteModal

Next ==
    \/ \E t \in 0..NFields : userFocus(t)
    \/ \E i \in 1..NFields, v \in FormValues : userInput(i, v)
    \/ handleQuote
    \/ handleContactSubmit
    \/ quoteTimerFires
    \/ \E k \in 1..MaxSubmits : contactResolves(k)
    \/ \E k \in 1..MaxSubmits : contactRejects(k)
    \/ toastTimerFires
    \/ openQuoteModal
    \/ focusTimerFires
    \/ closeQuoteModal
    \/ escapeKey

\* many submissions of one plain form
Init == SubmitInit /\ FieldIdle /\ ThemeIdle /\ LoadIdle /\ DraftIdle /\ ScrollInit

Spec == Init /\ [][Next]_vars

\* the timer of every simulateApiCall fires, and settles its promise
settles == \E k \in 1..MaxSubmits : contactResolves(k) \/ contactRejects(k)

SpecLive == Init /\ [][Next]_vars /\ WF_vars(settles) /\ WF_vars(toastTimerFires)

\* one submission of every form
FormSpecInit == FormInit /\ FieldIdle /\ ThemeIdle /\ LoadIdle /\ DraftIdle /\ ScrollInit

SpecForm == FormSpecInit /\ [][Next]_vars

(***************************************************************************)
(* The autosave specification: a contact form with data-autosave, its      *)
(* draft in local storage, and page loads.                                 *)
(***************************************************************************)
\* the fields of the autosaved form, each with a name of its own
fieldName(i) == <<"f", ToString(i)>>
DraftKinds == [i \in 1..NFields |-> [MixedKinds[i] EXCEPT !.name = fieldName(i)]]

\* the value attributes of the markup: the second field may be prefilled
Defaults ==
    {D \in [1..NFields -> {<<>>, <<"a", "a">>}] : \A i \in 1..NFields : i # 2 => D[i] = <<>>}

\* the values the user types into them
DraftValues == {<<>>, <<"a", "a">>}

\* the form of the markup: fields of kinds K with defaults D, each in a
\* group of its own
markupForm(K, D) ==
    LET F == formStart(K, [i \in 1..NFields |-> i])
    IN  [F EXCEPT !.fields = [i \in 1..NFields |->
                                 [F.fields[i] EXCEPT !.default = D[i], !.value = D[i]]]]

\* the form as the markup has it again after a reload
markupOf(F) ==
    markupForm(F.fields, [i \in 1..NFields |-> F.fields[i].default])

\* what local storage may hold under the form's key before the first load:
\* nothing, the empty string, JSON null, a JSON string, a text cut short,
\* a draft
InitialEntries ==
    {Absent, Stored(<<>>), Stored(<<NullTok>>), Stored(<<StrTok(<<"a">>)>>),
     Stored(<<LBrace, StrTok(fieldName(1)), Colon>>),
     Stored(stringify(<<[name |-> fieldName(1), value |-> <<"a", "a">>]>>))}

\* the key of initFormAutosave on page load n: form.id || 'form-' + random
keyOf(id, n) == IF id = "declared" THEN 0 ELSE n

\* the state after the first DOMContentLoaded: initFormAutosave has run
DraftInit ==
    /\ formId \in {"declared", "generated"}
    /\ storageKey = keyOf(formId, 1)
    /\ \E e \in InitialEntries :
          /\ formId = "generated" => e = Absent
          /\ localStorage = [k \in 0..MaxLoads |-> IF k = 0 THEN e ELSE Absent]
    /\ \E D \in Defaults :
          form = loadFormData(markupForm(DraftKinds, D), localStorage[storageKey])
    /\ saveTimers = 0
    /\ removeTimers = <<>>
    /\ draftTrail = NoTrail
    /\ submitLimit = 1
    /\ formKind = "contact"
    /\ btnText = OrigLabel
    /\ btnDisabled = FALSE
    /\ quoteTimers = <<>>
    /\ contactCalls = <<>>
    /\ toast = ToastHidden
    /\ toastTimers = 0
    /\ modal = ModalClosed
    /\ focusTimers = 0
    /\ accepted = 0
    /\ toastCount = 0
    /\ ev = OtherEvent

\* the timer of debounce fires: later() runs saveFormData(form, storageKey)
saveTimerFires ==
    /\ saveTimers > 0
    /\ saveTimers' = saveTimers - 1
    /\ localStorage' = [localStorage EXCEPT
                           ![storageKey] = Stored(stringify(formData(form)))]
    /\ draftTrail' = [draftTrail EXCEPT !.written = TRUE]
    /\ ev' = [kind |-> "saved", field |-> 0, hadError |-> FALSE]
    /\ UNCHANGED <<form, formKind, btnText, btnDisabled, quoteTimers, contactCalls,
                   toast, toastTimers, modal, focusTimers, accepted, toastCount,
                   formId, storageKey, removeTimers, others>>

\* the oldest 2 s timer of the 'submit' listener fires: removeItem; the
\* simulateApiCall of its submission has settled by then, within 2 s
removeTimerFires ==
    /\ removeTimers # <<>>
    /\ Head(removeTimers) = 0 \/ contactCalls = <<>>
    /\ removeTimers' = Tail(removeTimers)
    /\ localStorage' = [localStorage EXCEPT ![storageKey] = Absent]
    /\ ev' = [kind |-> "removed", field |-> 0, hadError |-> FALSE]
    /\ UNCHANGED <<form, formKind, btnText, btnDisabled, quoteTimers, contactCalls,
                   toast, toastTimers, modal, focusTimers, accepted, toastCount,
                   formId, storageKey, saveTimers, draftTrail, others>>

\* the page is left and loaded again: every timer and pending call is gone,
\* the document is the markup again, and DOMContentLoaded runs
\* initFormAutosave, which computes the key and calls loadFormData
pageLoad ==
    /\ draftTrail.loads < MaxLoads
    /\ storageKey' = keyOf(formId, draftTrail.loads + 1)
    /\ form' = loadFormData(markupOf(form), localStorage[storageKey'])
    /\ draftTrail' = [loads |-> draftTrail.loads + 1, burst |-> 0,
                      written |-> FALSE, outcome |-> draftTrail.outcome]
    /\ saveTimers' = 0
    /\ removeTimers' = <<>>
    /\ btnText' = OrigLabel
    /\ btnDisabled' = FALSE
    /\ quoteTimers' = <<>>
    /\ contactCalls' = <<>>
    /\ toast' = ToastHidden
    /\ toastTimers' = 0
    /\ modal' = ModalClosed
    /\ focusTimers' = 0
    /\ ev' = [kind |-> "loaded", field |-> 0, hadError |-> FALSE]
    /\ UNCHANGED <<formKind, accepted, toastCount, formId, localStorage, others>>

NextDraft ==
    \/ \E t \in 0..NFields : userFocus(t)
    \/ \E i \in 1..NFields, v \in DraftValues : userInput(i, v)
    \/ handleContactSubmit
    \/ \E k \in 1..MaxSubmits : contactResolves(k)
    \/ \E k \in 1..MaxSubmits : contactRejects(k)
    \/ saveTimerFires
    \/ removeTimerFires
    \/ pageLoad

DraftSpecInit == DraftInit /\ FieldIdle /\ ThemeIdle /\ LoadIdle /\ ScrollInit

SpecDraft == DraftSpecInit /\ [][NextDraft]_vars

(***************************************************************************)
(* The sticky header: the throttled scroll listener of initStickyHeader.   *)
(***************************************************************************)
\* a scroll event at position p: throttle lets the call through when no
\* timer of an earlier call is pending, and drops it otherwise
scrollEvent(p) ==
    /\ p # scrollTop
    /\ scrollTop' = p
    /\ IF ~inThrottle
       THEN /\ headerShrunk' = (p > ScrollThreshold)
            /\ lastScrollTop' = p
            /\ inThrottle' = TRUE
       ELSE UNCHANGED <<headerShrunk, lastScrollTop, inThrottle>>
    /\ UNCHANGED <<fieldVars, themeVars, formVars, loadVars, draftVars>>

\* the timer of throttle: inThrottle = false
throttleTimerFires ==
    /\ inThrottle
    /\ inThrottle' = FALSE
    /\ UNCHANGED <<scrollTop, lastScrollTop, headerShrunk,
                   fieldVars, themeVars, formVars, loadVars, draftVars>>

NextScroll ==
    \/ \E p \in 0..MaxScroll : scrollEvent(p)
    \/ throttleTimerFires

ScrollSpecInit ==
    ScrollInit /\ FieldIdle /\ ThemeIdle /\ FormIdle /\ LoadIdle /\ DraftIdle

SpecScroll == ScrollSpecInit /\ [][NextScroll]_vars

(***************************************************************************)
(* Claims about validateField, checked under SpecField.                    *)
(***************************************************************************)
validated == verdict # <<>>
result == verdict[1]

\* the five listed conditions, read on the value as it stands in the field
ListedCond(k, f) ==
    CASE k = 1 -> f.required /\ f.value = <<>>
      [] k = 2 -> f.type = "email" /\ ~emailRegexTest(f.value)
      [] k = 3 -> nameHasPhone(f) /\ ~phoneRegexTest(f.value)
      [] k = 4 -> f.tagName = "TEXTAREA" /\ Len(f.value) < TextareaMinLength
      [] k = 5 -> /\ f.tagName = "INPUT"
                  /\ f.type = "text"
                  /\ Len(f.value) < InputMinLength

\* the same conditions as the code applies them: on the trimmed value, the
\* conditions 2 to 5 only to a non-empty value, the phone condition only to a
\* field that is not of type email
AppliedCond(k, f) ==
    LET v == trim(f.value)
    IN  CASE k = 1 -> f.required /\ v = <<>>
          [] k = 2 -> f.type = "email" /\ v # <<>> /\ ~emailRegexTest(v)
          [] k = 3 -> /\ f.type # "email"
                      /\ nameHasPhone(f)
                      /\ v # <<>>
                      /\ ~phoneRegexTest(v)
          [] k = 4 -> /\ f.tagName = "TEXTAREA"
                      /\ v # <<>>
                      /\ Len(v) < TextareaMinLength
          [] k = 5 -> /\ f.tagName = "INPUT"
                      /\ f.type = "text"
                      /\ v # <<>>
                      /\ Len(v) < InputMinLength

RuleMessage(k) ==
    CASE k = 1 -> MsgRequired
      [] k = 2 -> MsgEmail
      [] k = 3 -> MsgPhone
      [] k = 4 -> MsgTextarea
      [] k = 5 -> MsgInput

\* C2 as stated: whenever one of the five listed conditions holds for the
\* field, validateField returns false and the message is that of the first
\* listed condition that holds.
C2_AsStated ==
    validated =>
        \A k \in 1..5 :
            (ListedCond(k, fld) /\ \A j \in 1..(k - 1) : ~ListedCond(j, fld))
                => result = Verdict(FALSE, RuleMessage(k))

\* C2 amended: with the conditions read on the trimmed value, 2 to 5 only for
\* a non-empty value and the phone condition only for a field not of type
\* email, validateField returns false with the message of the first listed
\* condition that holds.
C2_FirstFailingRuleWins ==
    validated =>
        \A k \in 1..5 :
            (AppliedCond(k, fld) /\ \A j \in 1..(k - 1) : ~AppliedCond(j, fld))
                => result = Verdict(FALSE, RuleMessage(k))

\* a phone-named text input one character long: the phone and the length
\* condition both hold, and the phone message is the one returned
C2_Witness ==
    /\ validated
    /\ AppliedCond(3, fld)
    /\ AppliedCond(5, fld)
    /\ result = Verdict(FALSE, MsgPhone)

\* C3: a required field whose value is empty fails validateField with the
\* message 'This field is required.', whatever its tag, type or name.
C3_RequiredEmptyFails ==
    (validated /\ fld.required /\ fld.value = <<>>)
        => result = Verdict(FALSE, MsgRequired)

C3_Witness ==
    /\ validated
    /\ fld.required
    /\ fld.value = <<>>
    /\ fld.type = "email"
    /\ nameHasPhone(fld)
    /\ ~result.isValid

\* the shape C4 names: a non-empty local part without whitespace or '@', one
\* '@', and a domain that holds a '.' with non-empty parts on both sides
count(s, c) == Cardinality({k \in 1..Len(s) : s[k] = c})

EmailShaped(s) ==
    /\ count(s, "@") = 1
    /\ \A k \in 1..Len(s) : s[k] \notin Whitespace
    /\ \E at \in 2..Len(s) :
          /\ s[at] = "@"
          /\ \E dot \in (at + 2)..(Len(s) - 1) : s[dot] = "."

\* C4 as stated: a field of type email passes validateField exactly when its
\* value is of the email shape.
C4_AsStated ==
    (validated /\ fld.type = "email")
        => (result.isValid <=> EmailShaped(fld.value))

\* C4 amended: for a field of type email whose trimmed value is not empty,
\* validateField returns true exactly when the trimmed value is of the email
\* shape; an empty trimmed value passes exactly when the field is not required.
C4_EmailShapeDecides ==
    (validated /\ fld.type = "email")
        => LET v == trim(fld.value)
           IN  IF v = <<>>
               THEN result.isValid <=> ~fld.required
               ELSE result.isValid <=> EmailShaped(v)

C4_Witness ==
    /\ validated
    /\ fld.type = "email"
    /\ EmailShaped(trim(fld.value))
    /\ count(fld.value, ".") = 2
    /\ result.isValid

\* C5 as stated: for every textarea a value of exactly 9 characters fails and
\* a value of exactly 10 characters passes, whatever the name and the
\* required flag.
C5_AsStated ==
    (validated /\ fld.tagName = "TEXTAREA")
        => /\ Len(fld.value) = TextareaMinLength - 1 => ~result.isValid
           /\ Len(fld.value) = TextareaMinLength => result.isValid

\* C5 amended: for every textarea whose name does not contain 'phone', a
\* value whose trimmed length is exactly 9 fails and one whose trimmed length
\* is exactly 10 passes, whatever the required flag.
C5_TextareaBoundary ==
    (validated /\ fld.tagName = "TEXTAREA" /\ ~nameHasPhone(fld))
        => LET v == trim(fld.value)
           IN  /\ Len(v) = TextareaMinLength - 1
                    => result = Verdict(FALSE, MsgTextarea)
               /\ Len(v) = TextareaMinLength => result.isValid

C5_Witness ==
    /\ validated
    /\ fld.tagName = "TEXTAREA"
    /\ ~nameHasPhone(fld)
    /\ fld.required
    /\ Len(trim(fld.value)) = TextareaMinLength
    /\ result.isValid

(***************************************************************************)
(* Claims about the theme, checked under SpecTheme.                        *)
(***************************************************************************)
\* the positions of the trail that two later toggles follow
twiceToggled == {i \in 1..Len(themeTrail) : i + 2 <= Len(themeTrail)}

\* C10 as stated: from every starting state, two toggles return data-theme
\* to the value it had before the first.
C10_AsStated == \A i \in twiceToggled : themeTrail[i + 2] = themeTrail[i]

\* C10 amended: two toggles return data-theme to its value before the first
\* whenever that value is 'light' or 'dark'; from any other value they leave
\* it 'light'.
C10_ToggleTwice ==
    \A i \in twiceToggled :
        IF themeTrail[i] \in {"light", "dark"}
        THEN themeTrail[i + 2] = themeTrail[i]
        ELSE themeTrail[i + 2] = "light"

C10_Witness ==
    /\ Len(themeTrail) = 3
    /\ themeTrail[1] = "light"
    /\ themeTrail[2] = "dark"
    /\ dataTheme = "light"
    /\ prefersDark
(***************************************************************************)
(* Claims about the quote submission, checked under Spec.                  *)
(***************************************************************************)
(* C11: a theme chosen with toggleTheme persists: once a toggle has been   *)
(* made on any visit, local storage holds the theme of the last toggle,    *)
(* and on every page where initTheme has run data-theme is that theme,     *)
(* whatever the system colour scheme is; this covers every later load.     *)
(***************************************************************************)
C11_TogglePersists ==
    lastToggle # "none" =>
        /\ storedTheme = lastToggle
        /\ themeLoaded => dataTheme = lastToggle

\* a later load has restored the toggled theme against the system preference
C11_Witness ==
    /\ themeEvent = "init"
    /\ lastToggle = "light"
    /\ prefersDark
    /\ dataTheme = "light"

(***************************************************************************)
(* C19: while nothing is stored under 'theme', data-theme on a loaded page *)
(* is the system colour scheme, at load and after every system change;     *)
(* once a preference is stored, a system change leaves data-theme and the  *)
(* aria-label of the toggle as they were.                                  *)
(***************************************************************************)
C19_FollowsSystemUntilStored ==
    /\ [](themeLoaded /\ storedTheme \in {"null", ""}
             => dataTheme = systemTheme(prefersDark))
    /\ [][(prefersDark' # prefersDark /\ storedTheme \notin {"null", ""})
             => UNCHANGED <<dataTheme, themeLabel>>]_vars

\* a system change on a loaded page with a stored preference that differs
\* from the new system scheme
C19_Witness ==
    /\ themeEvent = "system"
    /\ themeLoaded
    /\ storedTheme = "light"
    /\ prefersDark
    /\ dataTheme = "light"

(***************************************************************************)
\* C1: once every submission of the quote form has completed, one toast has
\* been shown per submission and the submit button shows the label it had
\* before the submissions and is enabled, also when a submit event arrived
\* while an earlier submission's timer was pending.
C1_QuoteSubmitRestores ==
    (formKind = "quote" /\ accepted > 0 /\ quoteTimers = <<>>)
        => /\ toastCount = accepted
           /\ btnText = OrigLabel
           /\ ~btnDisabled

(***************************************************************************)
(* Claims about form validation, checked under SpecForm.                   *)
(***************************************************************************)
fieldValid(F, i) == validateField(F.fields[i]).isValid
invalidFields(F) == {i \in fieldIds(F) : ~fieldValid(F, i)}
valuesOf(F) == [i \in fieldIds(F) |-> F.fields[i].value]

\* the step is a submit event: every other action resets ev and keeps accepted
submitStep == ev'.kind = "blocked" \/ accepted' # accepted

\* C6: a submit event on a form with an invalid field leaves the button, the
\* pending completions, the toast and the field values as they are, in
\* handleQuote and in handleContactSubmit; and validateForm returns true
\* only when every field of the form is valid.
C6_InvalidFormBlocksSubmit ==
    [][ /\ (submitStep /\ invalidFields(form) # {})
            => /\ UNCHANGED <<btnText, btnDisabled, quoteTimers, contactCalls,
                              toast, toastTimers, toastCount, accepted>>
               /\ valuesOf(form') = valuesOf(form)
        /\ validateForm(form).isValid => invalidFields(form) = {}
      ]_vars

C6_Witness ==
    /\ ev.kind = "blocked"
    /\ invalidFields(form) # {}
    /\ formKind = "contact"
    /\ btnText = OrigLabel
    /\ ~btnDisabled
    /\ contactCalls = <<>>
    /\ toastCount = 0

\* C7: after validateForm has found an invalid field, the focus is on the
\* first invalid field of the form in document order.
C7_FocusOnFirstInvalid ==
    ev.kind = "blocked" => form.focus = Min(invalidFields(form))

\* the message of the first listed condition that holds for field f
firstFailingMessage(f) ==
    LET failing == {k \in 1..5 : AppliedCond(k, f)}
    IN  IF failing = {} THEN "" ELSE RuleMessage(Min(failing))

\* C8: no field has more than one error message element, and a displayed
\* message is that of the first rule that failed for the value it was
\* computed for.
C8_OneErrorPerField ==
    \A i \in fieldIds(form) :
        /\ Len(form.errs[i]) <= 1
        /\ \A n \in 1..Len(form.errs[i]) :
              form.errs[i][n].message =
                  firstFailingMessage([form.fields[i] EXCEPT
                                          !.value = form.errs[i][n].forValue])

C8_Witness ==
    /\ ev.kind = "blocked"
    /\ \A i \in fieldIds(form) : Len(form.errs[i]) = 1
    /\ form.errs[1][1].message = MsgRequired
    /\ form.errs[2][1].message = MsgTextarea

\* the step is an input event on field i
inputStep(i) == ev'.kind = "input" /\ ev'.field = i

\* the step makes a field lose the focus (a blur event) or is a submit attempt
blurOrSubmit == form'.focus # form.focus \/ submitStep

\* C9: when the focus leaves a field in a group, the group shows the field's
\* verdict; right after an input event on a field the field has no error
\* message, no aria-invalid and no form-group--error on its group; and a
\* field without them stays so until the next blur or submit attempt.
C9_InputClearsError ==
    [][ \A i \in fieldIds(form) :
          /\ (form.focus = i /\ form'.focus # i /\ groupOf(form, i) # 0)
                => /\ form'.groupError[groupOf(form, i)] = ~fieldValid(form, i)
                   /\ form'.groupValid[groupOf(form, i)] = fieldValid(form, i)
          /\ inputStep(i) => ~showsError(form', i)
          /\ (~showsError(form, i) /\ ~blurOrSubmit) => ~showsError(form', i)
      ]_vars

C9_Witness ==
    /\ ev.kind = "input"
    /\ ev.hadError
    /\ ev.field = 2
    /\ ~showsError(form, 2)
    /\ ~fieldValid(form, 2)
(***************************************************************************)
(* Claims about the contact form's submissions and the toast.              *)
(***************************************************************************)
\* a pending simulateApiCall has just ended, in success or in failure
settled == ev'.kind \in {"resolved", "rejected"}

(***************************************************************************)
(* C12: when the contact form's simulated submission fails, an error toast *)
(* is shown, the form is left as it was (no reset), and the submit button  *)
(* shows its original label again and is enabled.                          *)
(***************************************************************************)
C12_FailureLeavesFormForRetry ==
    [][ev'.kind = "rejected" =>
          /\ toast'.show /\ toast'.error
          /\ form' = form
          /\ btnText' = OrigLabel
          /\ ~btnDisabled']_vars

C17_ToastAutoDismisses ==
    /\ [](toastTimers = 0 => ~toast.show)
    /\ toast.show ~> ~toast.show

\* two toasts were shown and every timer has fired
C17_Witness == toastCount = 2 /\ toastTimers = 0 /\ ~toast.show

(***************************************************************************)
(* Claims about content loading, checked under SpecLoad.                   *)
(***************************************************************************)
\* the load of w has ended with its document rendered
shown(w) ==
    /\ loads[w].region.kind = (IF w = "products" THEN "cards" ELSE "slides")
    /\ loads[w].region.items =
          IF w = "products" THEN slice3(loads[w].body.items)
          ELSE loads[w].body.items

\* nothing of w's own stands in the way of rendering
sound(w) ==
    /\ loads[w].stage = "done"
    /\ loads[w].body.kind = "array"
    /\ loads[w].carousel # "throws"

(***************************************************************************)
(* C16: when fetching or parsing the document of a load fails, its region  *)
(* holds the static 'Unable to load ...' message, and the other load still *)
(* ends and renders its own document.                                      *)
(***************************************************************************)
C16_LoadFailureShowsMessage ==
    \A w \in Loads :
        loads[w].failed =>
            /\ loads[w].stage = "done"
            /\ loads[w].region.kind = "unable"
            /\ \A o \in Loads \ {w} : sound(o) => shown(o)

\* the products load failed while parsing, the testimonials are rendered
C16_Witness ==
    /\ loads["products"].failed
    /\ loads["products"].body.kind = "notJSON"
    /\ loads["products"].region.kind = "unable"
    /\ sound("testimonials")
    /\ loads["testimonials"].region = [kind |-> "slides", items |-> 2]

(***************************************************************************)
(* Claims about the autosave, checked under SpecDraft.                     *)
(***************************************************************************)
\* the page has just been loaded again
loadStep == ev'.kind = "loaded" /\ draftTrail'.loads # draftTrail.loads

\* the pairs of a stored draft
pairsOf(entry) == parse(entry.text).pairs

(***************************************************************************)
(* C14: for a form with data-autosave, with a declared or a generated      *)
(* identifier, the values saveFormData wrote during one page load are in   *)
(* the fields of the same names after the next page load.                  *)
(***************************************************************************)
C14_DraftRestoredOnNextLoad ==
    [][(loadStep /\ draftTrail.written /\ localStorage[storageKey].present) =>
          \A n \in 1..Len(pairsOf(localStorage[storageKey])) :
              LET pair == pairsOf(localStorage[storageKey])[n]
              IN  \A i \in named(form', pair.name) :
                      form'.fields[i].value = pair.value]_vars

(***************************************************************************)
(* C15: when the entry stored for the form is absent or malformed, the     *)
(* page load leaves every field at the value of the markup and the form    *)
(* ready for use.                                                          *)
(***************************************************************************)
unusable(entry) ==
    \/ ~entry.present
    \/ ~parse(entry.text).ok
    \/ parse(entry.text).kind # "object"

C15_BadDraftIgnored ==
    [][(loadStep /\ unusable(localStorage[storageKey'])) =>
          form' = markupOf(form)]_vars

\* a page load has found a text cut short under the key of a form whose
\* second field is prefilled
C15_Witness ==
    /\ ev.kind = "loaded"
    /\ localStorage[storageKey] = Stored(<<LBrace, StrTok(fieldName(1)), Colon>>)
    /\ form.fields[2].default = <<"a", "a">>
    /\ form.fields[2].value = <<"a", "a">>

(***************************************************************************)
(* C18: the stored draft is removed on a successful submit and only then:  *)
(* whenever a draft is removed, the submit event that started the removal  *)
(* passed validation and its simulated submission succeeded.               *)
(***************************************************************************)
draftRemoved ==
    localStorage[storageKey].present /\ ~localStorage'[storageKey].present

C18_DraftRemovedOnlyOnSuccess ==
    [][draftRemoved =>
          Head(removeTimers) # 0 /\ draftTrail.outcome = "sent"]_vars

(***************************************************************************)
(* C20: autosave is debounced: an input event writes nothing and leaves    *)
(* one timer pending however many came before it; the write is made when   *)
(* that timer fires, after the last input of the burst, stores the form's  *)
(* field values of that moment, and leaves no further write pending; local *)
(* storage is written in no other way.                                     *)
(***************************************************************************)
C20_AutosaveDebounced ==
    /\ [](saveTimers <= 1)
    /\ [][ev'.kind = "input" =>
            saveTimers' = 1 /\ localStorage' = localStorage]_vars
    /\ [][ev'.kind = "saved" =>
            /\ draftTrail.burst > 0
            /\ saveTimers' = 0
            /\ localStorage'[storageKey] = Stored(stringify(formData(form')))]_vars
    /\ [][(\E k \in 0..MaxLoads :
              localStorage'[k] # localStorage[k] /\ localStorage'[k].present)
            => ev'.kind = "saved" /\ saveTimers = 1]_vars

\* a burst of two input events has ended in a write of the form's values
C20_Witness ==
    /\ ev.kind = "saved"
    /\ saveTimers = 0
    /\ draftTrail.burst = 2
    /\ form.fields[1].value = <<"a", "a">>
    /\ form.fields[2].value = <<"a", "a">>
    /\ form.fields[2].default = <<>>
    /\ localStorage[storageKey] = Stored(stringify(formData(form)))

(***************************************************************************)
(* C21: at most one simulated submission is in flight per form: while the  *)
(* submit button is disabled and reads 'Sending...', a further submit      *)
(* event starts no second timer and no second simulateApiCall.             *)
(***************************************************************************)
C21_OneSubmissionInFlight ==
    [][(btnDisabled /\ btnText = SendingLabel)
          => UNCHANGED <<quoteTimers, contactCalls>>
             \/ Len(quoteTimers') + Len(contactCalls')
                  < Len(quoteTimers) + Len(contactCalls)]_vars

(***************************************************************************)
(* C22: a toast is hidden only by the timer of the showToast call that     *)
(* displayed it: when a timer hides the toast, no timer of an earlier call *)
(* was pending, so the one that fired is the timer of the last call.       *)
(***************************************************************************)
C22_ToastHiddenByOwnTimer ==
    [][(toast.show /\ ~toast'.show) => toastTimers = 1]_vars

(***************************************************************************)
(* C23: the delayed completion of a quote submission leaves alone what     *)
(* came after it: when the modal was closed and opened again before the    *)
(* 1.5 s timer fires, the timer's callback neither closes the reopened     *)
(* modal nor changes the values entered since.                             *)
(***************************************************************************)
C23_TimerSparesReopenedModal ==
    [][(Len(quoteTimers') < Len(quoteTimers) /\ Head(quoteTimers).reopened)
          => modal' = modal /\ valuesOf(form') = valuesOf(form)]_vars

(***************************************************************************)
(* C25: the quote modal carries the modal-open class exactly when its      *)
(* aria-hidden attribute is 'false' and exactly when the body's overflow   *)
(* is 'hidden'; a closed modal is opened by openQuoteModal alone, never by *)
(* the Escape key, a backdrop click or a completed submission.             *)
(***************************************************************************)
C25_ModalStateConsistent ==
    /\ [](modal.open <=> modal.ariaHidden = "false")
    /\ [](modal.open <=> modal.overflow = "hidden")
    /\ [][(~modal.open /\ modal'.open) => focusTimers' = focusTimers + 1]_vars

\* the modal is open again after a completed quote submission closed it
C25_Witness ==
    /\ formKind = "quote"
    /\ toastCount = 1
    /\ quoteTimers = <<>>
    /\ modal.open
    /\ modal.ariaHidden = "false"
    /\ modal.overflow = "hidden"

(***************************************************************************)
(* C24: under blur, input, submit and form-reset events, an error message  *)
(* element stands after a field only while the field's group carries the   *)
(* form-group--error class; a field that validateField last judged valid   *)
(* shows no error message and no aria-invalid; and no group carries        *)
(* form-group--error and form-group--valid together.                       *)
(***************************************************************************)
C24_ErrorStateConsistent ==
    /\ \A i \in fieldIds(form) :
          /\ form.errs[i] # <<>> =>
                groupOf(form, i) # 0 /\ form.groupError[groupOf(form, i)]
          /\ form.judged[i] = "valid" =>
                form.errs[i] = <<>> /\ ~form.ariaInvalid[i]
    /\ \A g \in DOMAIN form.groupError :
          ~(form.groupError[g] /\ form.groupValid[g])

(***************************************************************************)
(* C26: once the scroll events have stopped and the timer of throttle has  *)
(* expired, the header carries header--shrunk exactly when the last scroll *)
(* position is greater than the threshold.                                 *)
(***************************************************************************)
C26_HeaderReflectsFinalScroll ==
    ~inThrottle => (headerShrunk <=> scrollTop > ScrollThreshold)

====
